---- MODULE Spec2Model ----
(***************************************************************************)
(* Token authentication and request gating of the quizmaker application:   *)
(* signToken / verifyToken (lib/crypto-edge.ts), the middleware gate       *)
(* (middleware.ts) and the role checks of the API route handlers           *)
(* (lib/d1-client.ts, app/api/**/route.ts), password hashing and the       *)
(* registration and login of AuthService (services/auth-service.ts).       *)
(*                                                                         *)
(* Spec is a deployment with JWT_SECRET configured, SpecNoSecret one       *)
(* without; SpecLogin runs registration and login; SpecCompare runs the    *)
(* string comparison of verifyToken character by character.                *)
(*                                                                         *)
(* Representation.  A JSON number-or-null is a set of at most one integer: *)
(* {} is null (and NaN, which JSON.stringify writes as null), {n} is n.    *)
(* A token is the sequence of its '.'-separated segments.  HMAC-SHA256 is  *)
(* modelled as an injective function of the signed data and the key.       *)
(***************************************************************************)
EXTENDS Integers, Sequences, FiniteSets, TLC

VARIABLES now, ticks, cookie, response, vt, st, env, db, auth, cmp, tables,
          calls

vars ==
  <<now, ticks, cookie, response, vt, st, env, db, auth, cmp, tables, calls>>

----------------------------------------------------------------------------
(* Bounds of the model *)

MaxTicks == 3

\* Number of QuestionService / QuizService calls a behaviour starts.
MaxCalls == 2

\* Length of the signature strings the comparison is run on.
SigLen == 3

----------------------------------------------------------------------------
(* Time and lifetimes: signToken *)

SecondsPerHour == 3600

SecondsPerDay == 86400

DefaultExpirationSeconds == 86400

\* The clock steps the model takes: one second, one day.
TickSteps == {1, SecondsPerDay}

\* JS number arithmetic on number-or-NaN values.
Times(v, k) == {n * k : n \in v}

Plus(t, v) == {t + n : n \in v}

\* payload.exp && ...: null, NaN and 0 are falsy.
Truthy(v) == v # {} /\ v # {0}

\* a < b on numbers; a comparison with NaN is false.
LessThan(v, t) == \E n \in v : n < t

\* An expiresIn string, by what signToken reads of it: parseInt(expiresIn)
\* (num, {} when it is NaN) and the suffix endsWith() tests.
ExpiresIn24h == [num |-> {24}, suffix |-> "h"]

ExpiresInMinus1d == [num |-> {0 - 1}, suffix |-> "d"]

ExpiresInH == [num |-> {}, suffix |-> "h"]

ExpiresIn30m == [num |-> {30}, suffix |-> "m"]

ExpiresInputs == {ExpiresIn24h, ExpiresInMinus1d, ExpiresInH, ExpiresIn30m}

ExpirationSeconds(expiresIn) ==
  IF expiresIn.suffix = "h" THEN Times(expiresIn.num, SecondsPerHour)
  ELSE IF expiresIn.suffix = "d" THEN Times(expiresIn.num, SecondsPerDay)
  ELSE {DefaultExpirationSeconds}

----------------------------------------------------------------------------
(* Payloads, segments, signatures *)

Roles == {"instructor", "student"}

\* The claim sets login passes to signToken: rows of the users table.
\* The third row holds an address with a character above U+00FF (the euro
\* sign, written (U+20AC) here), which the e-mail pattern of register admits.
Users ==
  { [userId |-> "u1", email |-> "i@quiz.io", role |-> "instructor"],
    [userId |-> "u2", email |-> "s@quiz.io", role |-> "student"],
    [userId |-> "u3", email |-> "s(U+20AC)@quiz.io", role |-> "student"] }

\* The strings of the model that hold a UTF-16 code unit above 0xFF.
NonLatin1Strings == {"s(U+20AC)@quiz.io"}

Latin1(str) == str \notin NonLatin1Strings

NoPayload == [userId |-> "", email |-> "", role |-> "", iat |-> {}, exp |-> {}]

FullPayload(claims, t, expiresIn) ==
  [userId |-> claims.userId, email |-> claims.email, role |-> claims.role,
   iat |-> {t}, exp |-> Plus(t, ExpirationSeconds(expiresIn))]

\* The value of JWT_SECRET in a deployment that configures one.
EnvSecret == "env-secret"

DefaultSecret == "default-secret-key-change-in-production"

\* process.env.JWT_SECRET || default: an unset or empty variable is falsy.
JWT_SECRET == IF env.JWT_SECRET # "" THEN env.JWT_SECRET ELSE DefaultSecret

AttackerSecret == "attacker-key"

\* A segment of a token.  tag: "header" is base64url(JSON(header)),
\* "payload" is base64url(JSON(p)), "sig" is a signature over the data
\* (htag, ptag, p) under key, "garbage" is text that is no base64url of a
\* JSON document, "empty" is the empty string.
Seg(tag, p, key, htag, ptag) ==
  [tag |-> tag, p |-> p, key |-> key, htag |-> htag, ptag |-> ptag]

EncodedHeader == Seg("header", NoPayload, "", "", "")

GarbageSeg == Seg("garbage", NoPayload, "", "", "")

EmptySeg == Seg("empty", NoPayload, "", "", "")

\* btoa(JSON.stringify(payload)) throws InvalidCharacterError when the JSON
\* text holds a code unit above 0xFF; JSON.stringify leaves such characters
\* of a string value as they are.
btoaThrows(payload) ==
  ~Latin1(payload.userId) \/ ~Latin1(payload.email) \/ ~Latin1(payload.role)

base64UrlEncode(payload) == Seg("payload", payload, "", "", "")

\* atob + JSON.parse: the payload, or a throw.
base64UrlDecode(seg) ==
  IF seg.tag = "payload" THEN [ok |-> TRUE, payload |-> seg.p]
  ELSE [ok |-> FALSE, payload |-> NoPayload]

\* HMAC over `${encodedHeader}.${encodedPayload}` with the secret.
createSignature(h, pl, secret) == Seg("sig", pl.p, secret, h.tag, pl.tag)

NoCookie == <<>>

EmptyToken == <<EmptySeg>>

SignThrown(error) == [ok |-> FALSE, token |-> NoCookie, error |-> error]

Signed(token) == [ok |-> TRUE, token |-> token, error |-> ""]

signToken(claims, expiresIn, t) ==
  LET payload == FullPayload(claims, t, expiresIn)
      encodedPayload == base64UrlEncode(payload)
  IN  IF btoaThrows(payload) THEN SignThrown("InvalidCharacterError")
      ELSE Signed(<<EncodedHeader, encodedPayload,
                    createSignature(EncodedHeader, encodedPayload, JWT_SECRET)>>)

----------------------------------------------------------------------------
(* verifyToken, check by check *)

GenericError == "Invalid or expired token"

\* Mutant: a token of more than three parts passes the length check.
PartsOk_AtLeastThree(token) == Len(token) >= 3

PartsOk(token) == Len(token) = 3

\* Mutant: the signature is recomputed under the key the token names.
SignatureOk_AnyKey(token) ==
  token[3] = createSignature(token[1], token[2], token[3].key)

SignatureOk(token) ==
  token[3] = createSignature(token[1], token[2], JWT_SECRET)

IsExpired(payload, t) == Truthy(payload.exp) /\ LessThan(payload.exp, t)

\* Mutant: no catch-all; the error thrown by the failing check surfaces.
Thrown_CauseSurfaces(cause) ==
  [ok |-> FALSE, payload |-> NoPayload, error |-> cause, cause |-> cause]

Thrown(cause) ==
  [ok |-> FALSE, payload |-> NoPayload, error |-> GenericError, cause |-> cause]

Returned(payload) ==
  [ok |-> TRUE, payload |-> payload, error |-> "", cause |-> ""]

\* cryptoFails: crypto.subtle rejects inside createSignature (importKey or
\* sign), an error of the runtime and not of the token.
verifyToken(token, t, cryptoFails) ==
  IF ~PartsOk(token) THEN Thrown("Invalid token format")
  ELSE IF cryptoFails THEN Thrown("OperationError")
  ELSE IF ~SignatureOk(token) THEN Thrown("Invalid signature")
  ELSE IF ~base64UrlDecode(token[2]).ok THEN Thrown("SyntaxError")
  ELSE IF IsExpired(base64UrlDecode(token[2]).payload, t) THEN Thrown("Token expired")
  ELSE Returned(base64UrlDecode(token[2]).payload)

----------------------------------------------------------------------------
(* Paths: sequences of characters, so that startsWith is a prefix test *)

StartsWith(s, prefix) ==
  Len(prefix) <= Len(s) /\ SubSeq(s, 1, Len(prefix)) = prefix

Slash == <<"/">>

W_api == <<"a", "p", "i">>

W_auth == <<"a", "u", "t", "h">>

W_health == <<"h", "e", "a", "l", "t", "h">>

W_login == <<"l", "o", "g", "i", "n">>

W_signup == <<"s", "i", "g", "n", "u", "p">>

W_instructor == <<"i", "n", "s", "t", "r", "u", "c", "t", "o", "r">>

W_student == <<"s", "t", "u", "d", "e", "n", "t">>

W_dashboard == <<"d", "a", "s", "h", "b", "o", "a", "r", "d">>

W_quiz == <<"q", "u", "i", "z">>

W_questions == <<"q", "u", "e", "s", "t", "i", "o", "n", "s">>

W_random == <<"r", "a", "n", "d", "o", "m">>

W_leaderboard == <<"l", "e", "a", "d", "e", "r", "b", "o", "a", "r", "d">>

W_data == <<"d", "a", "t", "a">>

W_profile == <<"p", "r", "o", "f", "i", "l", "e">>

RootPath == Slash

LoginPath == Slash \o W_login

SignupPath == Slash \o W_signup

ApiPrefix == Slash \o W_api \o Slash

ApiAuthPrefix == Slash \o W_api \o Slash \o W_auth

ApiHealthPath == Slash \o W_api \o Slash \o W_health

ApiAuthLoginPath == ApiAuthPrefix \o Slash \o W_login

InstructorPrefix == Slash \o W_instructor

StudentPrefix == Slash \o W_student

InstructorDashboardPath == InstructorPrefix \o Slash \o W_dashboard

InstructorQuestionsPath == InstructorPrefix \o Slash \o W_questions

StudentQuizPath == StudentPrefix \o Slash \o W_quiz

StudentLeaderboardPath == StudentPrefix \o Slash \o W_leaderboard

ApiQuestionsPath == ApiPrefix \o W_questions

ApiQuizRandomPath == ApiPrefix \o W_quiz \o Slash \o W_random

ApiQuizLeaderboardPath == ApiPrefix \o W_quiz \o Slash \o W_leaderboard

ApiDataPath == ApiPrefix \o W_data

ProfilePath == Slash \o W_profile

\* /api/questions/[id] with the ids q1 and q1.png, and a static file.
W_q1 == <<"q", "1">>

DotPng == <<".", "p", "n", "g">>

DotJpg == <<".", "j", "p", "g">>

DotSvg == <<".", "s", "v", "g">>

ApiQuestionByIdPath == ApiQuestionsPath \o Slash \o W_q1

ApiQuestionPngPath == ApiQuestionsPath \o Slash \o W_q1 \o DotPng

LogoPath == Slash \o <<"l", "o", "g", "o">> \o DotSvg

\* The requests the model sends.
Paths ==
  { RootPath, LoginPath, SignupPath, ApiHealthPath, ApiAuthLoginPath,
    InstructorDashboardPath, InstructorQuestionsPath, StudentQuizPath,
    StudentLeaderboardPath, ApiQuestionsPath, ApiQuizRandomPath,
    ApiQuizLeaderboardPath, ApiDataPath, ProfilePath }

----------------------------------------------------------------------------
(* The gate: middleware *)

publicRoutes == {RootPath, LoginPath, SignupPath}

NoIdentity == [userId |-> "", role |-> ""]

NoLocation == <<>>

\* NextResponse.next()
NextPlain ==
  [kind |-> "next", status |-> 0, location |-> NoLocation,
   identity |-> NoIdentity, clearCookie |-> FALSE]

\* Mutant: x-user-id taken from the wrong field of the payload.
NextWithIdentity_IdFromEmail(decoded) ==
  [kind |-> "next", status |-> 0, location |-> <<>>,
   identity |-> [userId |-> decoded.email, role |-> decoded.role],
   clearCookie |-> FALSE]

\* NextResponse.next({request: {headers}}) with x-user-id and x-user-role set
NextWithIdentity(decoded) ==
  [kind |-> "next", status |-> 0, location |-> NoLocation,
   identity |-> [userId |-> decoded.userId, role |-> decoded.role],
   clearCookie |-> FALSE]

\* Mutant: the redirect carries no target.
RedirectTo_NoTarget(location) ==
  [kind |-> "redirect", status |-> 307, location |-> NoLocation,
   identity |-> NoIdentity, clearCookie |-> FALSE]

RedirectTo(location) ==
  [kind |-> "redirect", status |-> 307, location |-> location,
   identity |-> NoIdentity, clearCookie |-> FALSE]

JsonStatus(status) ==
  [kind |-> "json", status |-> status, location |-> NoLocation,
   identity |-> NoIdentity, clearCookie |-> FALSE]

\* !token: an absent cookie and an empty cookie value are both falsy.
HasToken(token) == token # NoCookie /\ token # EmptyToken

\* Mutant: every role is sent to the instructor dashboard.
LandingRoute_Dashboard(role) == InstructorDashboardPath

LandingRoute(role) ==
  IF role = "instructor" THEN InstructorDashboardPath ELSE StudentQuizPath

\* Mutant: only API routes are refused without a token.
UnauthenticatedResponse_PagesOpen(isApiRoute) ==
  IF isApiRoute THEN JsonStatus(401) ELSE NextPlain

UnauthenticatedResponse(isApiRoute) ==
  IF isApiRoute THEN JsonStatus(401) ELSE RedirectTo(LoginPath)

\* Mutant: the invalid cookie is left in place.
InvalidTokenResponse_KeepsCookie(isApiRoute) ==
  IF isApiRoute THEN JsonStatus(401) ELSE RedirectTo(LoginPath)

InvalidTokenResponse(isApiRoute) ==
  [(IF isApiRoute THEN JsonStatus(401) ELSE RedirectTo(LoginPath))
     EXCEPT !.clearCookie = TRUE]

\* Mutant: the /student prefix is not checked.
VerifiedResponse_StudentOpen(pathname, decoded) ==
  IF StartsWith(pathname, InstructorPrefix) /\ decoded.role # "instructor"
    THEN RedirectTo(StudentQuizPath)
  ELSE NextWithIdentity(decoded)

VerifiedResponse(pathname, decoded) ==
  IF StartsWith(pathname, InstructorPrefix) /\ decoded.role # "instructor"
    THEN RedirectTo(StudentQuizPath)
  ELSE IF StartsWith(pathname, StudentPrefix) /\ decoded.role # "student"
    THEN RedirectTo(InstructorDashboardPath)
  ELSE NextWithIdentity(decoded)

\* Mutant: /login and /signup treat an invalid token as the protected
\* pages do.
AuthPageResponse_ClearsInvalid(token, t, cryptoFails) ==
  IF verifyToken(token, t, cryptoFails).ok
    THEN RedirectTo(LandingRoute(verifyToken(token, t, cryptoFails).payload.role))
  ELSE InvalidTokenResponse(FALSE)

AuthPageResponse(token, t, cryptoFails) ==
  IF verifyToken(token, t, cryptoFails).ok
    THEN RedirectTo(LandingRoute(verifyToken(token, t, cryptoFails).payload.role))
  ELSE NextPlain

TokenResponse(pathname, token, t, cryptoFails) ==
  IF verifyToken(token, t, cryptoFails).ok
    THEN VerifiedResponse(pathname, verifyToken(token, t, cryptoFails).payload)
  ELSE InvalidTokenResponse(StartsWith(pathname, ApiPrefix))

middleware(pathname, token, t, cryptoFails) ==
  IF StartsWith(pathname, ApiAuthPrefix) \/ pathname = ApiHealthPath
    THEN NextPlain
  ELSE IF pathname \in publicRoutes /\ ~HasToken(token)
    THEN NextPlain
  ELSE IF pathname \in publicRoutes /\ HasToken(token)
          /\ (pathname = LoginPath \/ pathname = SignupPath)
    THEN AuthPageResponse(token, t, cryptoFails)
  ELSE IF ~HasToken(token) /\ pathname \notin publicRoutes
    THEN UnauthenticatedResponse(StartsWith(pathname, ApiPrefix))
  ELSE IF HasToken(token)
    THEN TokenResponse(pathname, token, t, cryptoFails)
  ELSE NextPlain

----------------------------------------------------------------------------
(* config.matcher: the paths on which the framework runs middleware *)

Contains(s, part) ==
  \E i \in 1..(Len(s) - Len(part) + 1) : SubSeq(s, i, i + Len(part) - 1) = part

\* The alternatives of the negative lookahead that are prefixes.
MatcherPrefixes ==
  { W_api \o Slash \o W_auth,
    <<"_", "n", "e", "x", "t", "/", "s", "t", "a", "t", "i", "c">>,
    <<"_", "n", "e", "x", "t", "/", "i", "m", "a", "g", "e">>,
    <<"f", "a", "v", "i", "c", "o", "n">> }

\* The alternatives .*\.svg, .*\.png, .*\.jpg
MatcherExtensions == {DotSvg, DotPng, DotJpg}

\* '/((?!api/auth|_next/static|_next/image|favicon|.*\\.svg|.*\\.png|.*\\.jpg).*)'
matcher(pathname) ==
  /\ StartsWith(pathname, Slash)
  /\ \A prefix \in MatcherPrefixes : ~StartsWith(Tail(pathname), prefix)
  /\ \A ext \in MatcherExtensions : ~Contains(Tail(pathname), ext)

----------------------------------------------------------------------------
(* The API route handlers' use of the forwarded identity *)

\* The x-user-id and x-user-role a route handler reads: the ones middleware
\* set with NextResponse.next({request: {headers}}), else the ones the
\* request came with.
RequestHeaders(r) ==
  IF r.gate.identity # NoIdentity THEN r.gate.identity ELSE r.headers

\* What each route handler asks of the request: requireRole(request, r),
\* requireAuth(request), or nothing.
HandlerRequires(pathname) ==
  IF pathname = ApiQuestionsPath THEN "instructor"
  ELSE IF StartsWith(pathname, ApiQuestionsPath \o Slash) THEN "instructor"
  ELSE IF pathname = ApiQuizRandomPath THEN "student"
  ELSE IF pathname = ApiQuizLeaderboardPath THEN "auth"
  ELSE "nothing"

HasHandler(pathname) == StartsWith(pathname, ApiPrefix)

getAuthenticatedUser(identity) ==
  IF identity.userId = "" \/ identity.role = "" THEN NoIdentity ELSE identity

\* The message of the error requireAuth / requireRole throws, "" for none.
requireRole(identity, requiredRole) ==
  IF getAuthenticatedUser(identity) = NoIdentity THEN "Not authenticated"
  ELSE IF identity.role # requiredRole THEN "Access denied. Required role"
  ELSE ""

requireAuth(identity) ==
  IF getAuthenticatedUser(identity) = NoIdentity THEN "Not authenticated" ELSE ""

\* errorMessage.includes('permission') || errorMessage.includes('role') ? 403 : 400
RoleHandlerStatus(errorMessage) ==
  IF errorMessage = "" THEN 200
  ELSE IF errorMessage = "Access denied. Required role" THEN 403
  ELSE 400

\* errorMessage.includes('authenticated') ? 401 : 400
AuthHandlerStatus(errorMessage) ==
  IF errorMessage = "" THEN 200
  ELSE IF errorMessage = "Not authenticated" THEN 401
  ELSE 400

routeHandler(pathname, identity) ==
  IF HandlerRequires(pathname) \in Roles
    THEN RoleHandlerStatus(requireRole(identity, HandlerRequires(pathname)))
  ELSE IF HandlerRequires(pathname) = "auth"
    THEN AuthHandlerStatus(requireAuth(identity))
  ELSE 200

----------------------------------------------------------------------------
(* What a client can put in the auth_token cookie *)

OtherRole(role) == IF role = "instructor" THEN "student" ELSE "instructor"

WithPayload(token, payload) ==
  <<token[1], base64UrlEncode(payload), token[3]>>

Resigned(token, secret) ==
  <<token[1], token[2], createSignature(token[1], token[2], secret)>>

\* The edits of a token the server signed.
Edits(token) ==
  LET p == token[2].p
  IN  { WithPayload(token, [p EXCEPT !.role = OtherRole(p.role)]),
        WithPayload(token, [p EXCEPT !.exp = {}]),
        Resigned(WithPayload(token, [p EXCEPT !.role = OtherRole(p.role)]),
                 AttackerSecret),
        <<token[1], token[2], GarbageSeg>>,
        <<token[1], GarbageSeg, token[3]>>,
        <<token[1], token[2]>>,
        token \o <<GarbageSeg>>,
        <<EmptySeg, token[2], token[3]>>,
        <<token[1], EmptySeg, token[3]>>,
        <<token[1], token[2], EmptySeg>> }

Forgeries(values) ==
  IF PartsOk(values) /\ SignatureOk(values) THEN Edits(values)
  ELSE {NoCookie, EmptyToken, <<GarbageSeg>>}

----------------------------------------------------------------------------
(* Passwords, AuthService.register and AuthService.login *)

\* The SHA-256 hex digest of the password: a function of the password and
\* of nothing else, taken to be free of collisions.
hash(password) == [sha256 |-> password]

compare(password, storedHash) == hash(password) = storedHash

JWT_EXPIRES_IN == ExpiresIn24h

\* The strings the model sends to the two routes.  "S@Quiz.io" is the one
\* with upper-case letters, "not-an-email" the one the e-mail pattern
\* refuses, "short" the one password of fewer than 8 characters.
RegisterEmails ==
  {"i@quiz.io", "S@Quiz.io", "s(U+20AC)@quiz.io", "not-an-email"}

LoginEmails ==
  {"", "i@quiz.io", "s@quiz.io", "s(U+20AC)@quiz.io", "nobody@quiz.io"}

Passwords == {"password1", "password2"}

RegisterRoles == {"student", "instructor", "admin"}

UserIds == {"u1", "u2", "u3"}

toLowerCase(str) == IF str = "S@Quiz.io" THEN "s@quiz.io" ELSE str

isValidEmail(email) == email \notin {"", "not-an-email"}

TooShort(password) == password \in {"", "short"}

\* SELECT ... FROM users WHERE email = ?
UsersWhereEmail(email) == {row \in db : row.email = email}

\* crypto.randomUUID(): an id no row has.
generateId == CHOOSE id \in UserIds : \A row \in db : row.id # id

\* The message of the error register throws, "" for none.  The name of the
\* input is taken to be a valid one.
registerError(input) ==
  IF ~isValidEmail(input.email) THEN "Invalid email format"
  ELSE IF TooShort(input.password) THEN "Password must be at least 8 characters"
  ELSE IF input.role \notin {"student", "instructor"} THEN "Invalid role"
  ELSE IF UsersWhereEmail(toLowerCase(input.email)) # {} THEN "Email already exists"
  ELSE ""

\* The row register inserts.  typed is no column of the table: it keeps the
\* password the user chose, for the properties.
InsertedRow(input) ==
  [id |-> generateId, email |-> toLowerCase(input.email),
   password |-> hash(input.password), role |-> input.role,
   typed |-> input.password]

\* Mutant: an unknown e-mail address gets a message of its own.
UserNotFoundError_Reveals == "Invalid email"

UserNotFoundError == "Invalid email or password"

PasswordMismatchError == "Invalid email or password"

\* The message of the DOMException btoa throws differs between runtimes.
BtoaMessages == {"Invalid character", "String contains characters outside of the Latin1 range"}

LoginThrown(error, compared) ==
  [ok |-> FALSE, error |-> error, token |-> NoCookie, compared |-> compared,
   isPasswordValid |-> FALSE]

LoggedIn(token) ==
  [ok |-> TRUE, error |-> "", token |-> token, compared |-> TRUE,
   isPasswordValid |-> TRUE]

login(input, t, btoaMessage) ==
  IF input.email = "" \/ input.password = ""
    THEN LoginThrown("Email and password are required", FALSE)
  ELSE IF UsersWhereEmail(toLowerCase(input.email)) = {}
    THEN LoginThrown(UserNotFoundError, FALSE)
  ELSE
    LET userRow == CHOOSE row \in UsersWhereEmail(toLowerCase(input.email)) : TRUE
        signed == signToken([userId |-> userRow.id, email |-> userRow.email,
                             role |-> userRow.role], JWT_EXPIRES_IN, t)
    IN  IF ~compare(input.password, userRow.password)
          THEN LoginThrown(PasswordMismatchError, TRUE)
        ELSE IF ~signed.ok
          THEN [LoginThrown(btoaMessage, TRUE) EXCEPT !.isPasswordValid = TRUE]
        ELSE LoggedIn(signed.token)

\* errorMessage.includes('Invalid') ? 401 : 400
LoginErrorStatus(errorMessage) ==
  IF errorMessage \in {"Invalid email or password", "Invalid email",
                       "Invalid character"}
    THEN 401
  ELSE 400

----------------------------------------------------------------------------

NoResponse ==
  [stage |-> "none", pathname |-> NoLocation, token |-> NoCookie, at |-> 0,
   cryptoFails |-> FALSE, gate |-> NextPlain, handler |-> 0,
   headers |-> NoIdentity]

NoResult == [ok |-> FALSE, payload |-> NoPayload, error |-> "", cause |-> ""]

IdleVt ==
  [pc |-> "idle", token |-> NoCookie, sigChecked |-> FALSE, sigEqual |-> FALSE,
   decoded |-> FALSE, payload |-> NoPayload, expiryRead |-> FALSE, at |-> 0,
   cryptoFails |-> FALSE, result |-> NoResult]

NoClaims == [userId |-> "", email |-> "", role |-> ""]

NoExpiresIn == [num |-> {}, suffix |-> ""]

IdleSt ==
  [pc |-> "idle", claims |-> NoClaims, expiresIn |-> NoExpiresIn, at |-> 0,
   result |-> SignThrown("")]

IdleAuth ==
  [pc |-> "idle", op |-> "", email |-> "", password |-> "", status |-> 0,
   message |-> "", token |-> NoCookie, compared |-> FALSE,
   isPasswordValid |-> FALSE]

----------------------------------------------------------------------------
(* Questions, options and quiz attempts: the tables and the inputs *)

\* The service calls that can be in progress at once.
Procs == {1, 2}

\* An optional field of an input is a set of at most one value: {} is
\* undefined.
Opt(optionText, isCorrect) == [optionText |-> optionText, isCorrect |-> isCorrect]

FourOptions ==
  <<Opt("A", TRUE), Opt("B", FALSE), Opt("C", FALSE), Opt("D", FALSE)>>

SixOptions ==
  <<Opt("A", FALSE), Opt("B", TRUE), Opt("C", FALSE), Opt("D", FALSE),
    Opt("E", FALSE), Opt("F", FALSE)>>

ThreeOptions == <<Opt("A", TRUE), Opt("B", FALSE), Opt("C", FALSE)>>

TwoCorrectOptions ==
  <<Opt("A", TRUE), Opt("B", TRUE), Opt("C", FALSE), Opt("D", FALSE)>>

EmptyTextOptions ==
  <<Opt("A", TRUE), Opt(" ", FALSE), Opt("C", FALSE), Opt("D", FALSE)>>

GoodText == "What is two plus two?"

OtherText == "What is three times three?"

\* The texts of the model by their lengths: trim().length < 10, length > 1000,
\* and for an option trim().length < 1.
TextTooShort(text) == text \in {"", "Too short"}

TextTooLong(text) == text \in {"(1001 characters)"}

OptionTextEmpty(text) == text \in {"", " "}

Difficulties == {"easy", "medium", "hard"}

QuestionInput(questionText, difficulty, points, options) ==
  [questionText |-> questionText, difficulty |-> difficulty,
   points |-> points, options |-> options]

NoInput == QuestionInput({}, {}, {}, {})

\* The message of the error the validation of the options throws, "" for
\* none.
optionsError(options) ==
  IF Len(options) # 4 /\ Len(options) # 6
    THEN "Question must have exactly 4 or 6 options"
  ELSE IF Cardinality({i \in 1..Len(options) : options[i].isCorrect}) # 1
    THEN "Question must have exactly one correct answer"
  ELSE IF \E i \in 1..Len(options) : OptionTextEmpty(options[i].optionText)
    THEN "Option text cannot be empty"
  ELSE ""

\* Mutant: createQuestion does not look at the points.
createError_PointsUnchecked(input) ==
  IF input.questionText = {} \/ \E t \in input.questionText : TextTooShort(t)
    THEN "Question text must be at least 10 characters"
  ELSE IF \E t \in input.questionText : TextTooLong(t)
    THEN "Question text must not exceed 1000 characters"
  ELSE IF input.difficulty = {} \/ input.difficulty \cap Difficulties = {}
    THEN "Difficulty must be easy, medium, or hard"
  ELSE IF input.options = {}
    THEN "Question must have exactly 4 or 6 options"
  ELSE IF \E o \in input.options : optionsError(o) # ""
    THEN CHOOSE e \in {optionsError(o) : o \in input.options} : TRUE
  ELSE ""

\* The message of the error the validation of createQuestion throws.
createError(input) ==
  IF input.questionText = {} \/ \E t \in input.questionText : TextTooShort(t)
    THEN "Question text must be at least 10 characters"
  ELSE IF \E t \in input.questionText : TextTooLong(t)
    THEN "Question text must not exceed 1000 characters"
  ELSE IF input.difficulty = {} \/ input.difficulty \cap Difficulties = {}
    THEN "Difficulty must be easy, medium, or hard"
  ELSE IF input.options = {}
    THEN "Question must have exactly 4 or 6 options"
  ELSE IF \E o \in input.options : optionsError(o) # ""
    THEN CHOOSE e \in {optionsError(o) : o \in input.options} : TRUE
  ELSE IF \E n \in input.points : n < 1
    THEN "Points must be at least 1"
  ELSE ""

\* The message of the error the validation of the fields of updateQuestion
\* throws; a field that is undefined is not looked at.
updateFieldsError(input) ==
  IF \E t \in input.questionText : TextTooShort(t)
    THEN "Question text must be at least 10 characters"
  ELSE IF \E t \in input.questionText : TextTooLong(t)
    THEN "Question text must not exceed 1000 characters"
  ELSE IF input.difficulty # {} /\ input.difficulty \cap Difficulties = {}
    THEN "Difficulty must be easy, medium, or hard"
  ELSE IF \E n \in input.points : n < 1
    THEN "Points must be at least 1"
  ELSE ""

CreateInputs ==
  { QuestionInput({GoodText}, {"easy"}, {}, {FourOptions}),
    QuestionInput({"Too short"}, {"easy"}, {}, {FourOptions}),
    QuestionInput({GoodText}, {"trivial"}, {}, {FourOptions}),
    QuestionInput({GoodText}, {"easy"}, {}, {ThreeOptions}),
    QuestionInput({GoodText}, {"easy"}, {}, {TwoCorrectOptions}),
    QuestionInput({GoodText}, {"easy"}, {}, {EmptyTextOptions}),
    QuestionInput({GoodText}, {"easy"}, {0}, {FourOptions}) }

UpdateInputs ==
  { QuestionInput({OtherText}, {}, {}, {}),
    QuestionInput({"Too short"}, {}, {}, {}),
    QuestionInput({}, {}, {0}, {}),
    QuestionInput({}, {}, {}, {SixOptions}),
    QuestionInput({}, {}, {}, {FourOptions}),
    QuestionInput({}, {}, {}, {TwoCorrectOptions}),
    QuestionInput({OtherText}, {}, {}, {ThreeOptions}) }

\* Rows of the three tables.
QuestionRow(id, instructorId, input, t) ==
  [id |-> id, instructor_id |-> instructorId,
   question_text |-> CHOOSE x \in input.questionText : TRUE,
   difficulty |-> CHOOSE d \in input.difficulty : TRUE,
   points |-> IF input.points = {} THEN 1 ELSE CHOOSE n \in input.points : TRUE,
   created_at |-> t, updated_at |-> t]

\* fromBoolean
fromBoolean(value) == IF value THEN 1 ELSE 0

\* toBoolean
toBoolean(value) == value = 1

\* The rows the batch of createQuestion / updateQuestion inserts: ids taken
\* in order from base + 1, option_order = index + 1 of the 0-based index.
OptionRows(questionId, options, base) ==
  { [id |-> base + i, question_id |-> questionId,
     option_text |-> options[i].optionText,
     is_correct |-> fromBoolean(options[i].isCorrect),
     option_order |-> i] : i \in 1..Len(options) }

\* A database in which instructor u1 created one question the day before.
SeededTables ==
  [questions |->
     {QuestionRow(1, "u1", QuestionInput({GoodText}, {"easy"}, {}, {FourOptions}),
                  0)},
   options |-> OptionRows(1, FourOptions, 1),
   quiz_attempts |-> {},
   ids |-> 5]

\* A service call: its arguments, its local variables (existing: the
\* instructor_id the ownership query read; rows: the options it returns),
\* how it ended, and what it did to the tables (mutations: the INSERT,
\* UPDATE and DELETE statements it ran; removedAttempts: the quiz attempts
\* its DELETE cascaded away; midUpdate: its options query ran between the
\* DELETE and the INSERT of an updateQuestion on the same question).
IdleCall ==
  [op |-> "", pc |-> "idle", caller |-> "", role |-> "", qid |-> 0,
   input |-> NoInput, force |-> FALSE, selected |-> 0, existing |-> "",
   rows |-> {}, outcome |-> "", error |-> "", mutations |-> 0,
   removedAttempts |-> 0, midUpdate |-> FALSE]

NoCalls == [slot |-> [p \in Procs |-> IdleCall], started |-> 0]

IdleCmp ==
  [pc |-> "idle", signature |-> <<>>, expectedSignature |-> <<>>, i |-> 0,
   steps |-> 0, unequal |-> FALSE]

StartTime == SecondsPerDay

Init ==
  /\ now = StartTime
  /\ ticks = 0
  /\ cookie = NoCookie
  /\ response = NoResponse
  /\ vt = IdleVt
  /\ st = IdleSt
  /\ env = [JWT_SECRET |-> EnvSecret, NODE_ENV |-> "production"]
  /\ db = {}
  /\ auth = IdleAuth
  /\ cmp = IdleCmp
  /\ tables = SeededTables
  /\ calls = NoCalls

\* A deployment that configures no JWT_SECRET, in either mode.
InitNoSecret ==
  /\ now = StartTime
  /\ ticks = 0
  /\ cookie = NoCookie
  /\ response = NoResponse
  /\ vt = IdleVt
  /\ st = IdleSt
  /\ \E mode \in {"production", "development"} :
       env = [JWT_SECRET |-> "", NODE_ENV |-> mode]
  /\ db = {}
  /\ auth = IdleAuth
  /\ cmp = IdleCmp
  /\ tables = SeededTables
  /\ calls = NoCalls

Quiet ==
  /\ response = NoResponse
  /\ vt = IdleVt
  /\ st = IdleSt
  /\ auth = IdleAuth
  /\ cmp = IdleCmp
  /\ calls = NoCalls

Tick ==
  /\ ticks < MaxTicks
  /\ \E d \in TickSteps : now' = now + d
  /\ ticks' = ticks + 1
  /\ UNCHANGED <<cookie, response, vt, st, env, db, auth, cmp,
               tables, calls>>

\* signToken is called with the claims of a user and a lifetime argument.
SignToken ==
  /\ Quiet
  /\ \E claims \in Users, expiresIn \in ExpiresInputs :
       st' = [pc |-> "done", claims |-> claims, expiresIn |-> expiresIn,
              at |-> now, result |-> signToken(claims, expiresIn, now)]
  /\ UNCHANGED <<now, ticks, cookie, response, vt, env, db, auth, cmp,
               tables, calls>>

\* The caller takes the token and sets it as the auth_token cookie; when
\* signToken threw there is no token to set.
SignReturn ==
  /\ st.pc = "done"
  /\ cookie' = IF st.result.ok THEN st.result.token ELSE cookie
  /\ st' = IdleSt
  /\ UNCHANGED <<now, ticks, response, vt, env, db, auth, cmp,
               tables, calls>>

\* The client replaces its cookie by an edit of it, or drops it.
Tamper ==
  /\ Quiet
  /\ \E forged \in Forgeries(cookie) : cookie' = forged
  /\ cookie' # cookie
  /\ UNCHANGED <<now, ticks, response, vt, st, env, db, auth, cmp,
               tables, calls>>

\* The requests on which middleware gets as far as createSignature.
ReachesCreateSignature(pathname, token) ==
  /\ ~(StartsWith(pathname, ApiAuthPrefix) \/ pathname = ApiHealthPath)
  /\ HasToken(token)
  /\ PartsOk(token)

\* A request for pathname arrives with the cookie, and with no x-user-id or
\* x-user-role header of the client's own; the gate answers.  Where the gate
\* calls crypto.subtle, the call succeeds or rejects.
Request ==
  /\ Quiet
  /\ \E pathname \in Paths :
     \E cryptoFails \in
           IF ReachesCreateSignature(pathname, cookie) THEN BOOLEAN ELSE {FALSE} :
       LET gate == middleware(pathname, cookie, now, cryptoFails)
       IN  response' =
             [stage |-> IF gate.kind = "next" /\ HasHandler(pathname)
                          THEN "gate" ELSE "final",
              pathname |-> pathname, token |-> cookie, at |-> now,
              cryptoFails |-> cryptoFails, gate |-> gate, handler |-> 0,
              headers |-> NoIdentity]
  /\ UNCHANGED <<now, ticks, cookie, vt, st, env, db, auth, cmp,
               tables, calls>>

\* What a client can send as x-user-id and x-user-role.
ClientHeaders == {NoIdentity, [userId |-> "u1", role |-> "instructor"]}

DispatchPaths ==
  { ApiQuestionsPath, ApiQuestionByIdPath, ApiQuestionPngPath,
    ApiQuizRandomPath, ApiAuthLoginPath, InstructorDashboardPath, LogoPath }

\* The framework receives a request: it runs middleware when config.matcher
\* matches the pathname, and otherwise passes the request on as it came.
Dispatch ==
  /\ Quiet
  /\ \E pathname \in DispatchPaths, headers \in ClientHeaders :
       LET gate == IF matcher(pathname)
                     THEN middleware(pathname, cookie, now, FALSE)
                   ELSE NextPlain
       IN  response' =
             [stage |-> IF gate.kind = "next" /\ HasHandler(pathname)
                          THEN "gate" ELSE "final",
              pathname |-> pathname, token |-> cookie, at |-> now,
              cryptoFails |-> FALSE, gate |-> gate, handler |-> 0,
              headers |-> headers]
  /\ UNCHANGED <<now, ticks, cookie, vt, st, env, db, auth, cmp,
               tables, calls>>

\* JWTPayload.role is a string: signToken signs whatever role its caller
\* passes.
AnyRoleClaims ==
  Users \cup {[userId |-> "u9", email |-> "a@quiz.io", role |-> "admin"]}

SignTokenAnyRole ==
  /\ Quiet
  /\ \E claims \in AnyRoleClaims :
       st' = [pc |-> "done", claims |-> claims, expiresIn |-> ExpiresIn24h,
              at |-> now, result |-> signToken(claims, ExpiresIn24h, now)]
  /\ UNCHANGED <<now, ticks, cookie, response, vt, env, db, auth, cmp,
               tables, calls>>

\* The request the gate let through reaches its API route handler.
RouteHandler ==
  /\ response.stage = "gate"
  /\ response' =
       [response EXCEPT
          !.stage = "final",
          !.handler = routeHandler(response.pathname,
                                   RequestHeaders(response))]
  /\ UNCHANGED <<now, ticks, cookie, vt, st, env, db, auth, cmp,
               tables, calls>>

\* The client receives the response; a deleted cookie leaves its jar.
Deliver ==
  /\ response.stage = "final"
  /\ cookie' = IF response.gate.clearCookie THEN NoCookie ELSE cookie
  /\ response' = NoResponse
  /\ UNCHANGED <<now, ticks, vt, st, env, db, auth, cmp,
               tables, calls>>

\* POST /api/auth/signup
Register ==
  /\ Quiet
  /\ \E email \in RegisterEmails, password \in Passwords \cup {"short"},
        role \in RegisterRoles :
       LET input == [email |-> email, password |-> password, role |-> role]
           error == registerError(input)
       IN  /\ db' = IF error = "" THEN db \cup {InsertedRow(input)} ELSE db
           /\ auth' = [IdleAuth EXCEPT
                         !.pc = "done", !.op = "register", !.email = email,
                         !.password = password,
                         !.status = IF error = "" THEN 201 ELSE 400,
                         !.message = IF error = "" THEN "User created successfully"
                                     ELSE error]
  /\ UNCHANGED <<now, ticks, cookie, response, vt, st, env, cmp,
               tables, calls>>

\* POST /api/auth/login
Login ==
  /\ Quiet
  /\ \E email \in LoginEmails, password \in Passwords \cup {""},
        btoaMessage \in BtoaMessages :
       LET result == login([email |-> email, password |-> password], now,
                           btoaMessage)
       IN  auth' = [pc |-> "done", op |-> "login", email |-> email,
                    password |-> password,
                    status |-> IF result.ok THEN 200
                               ELSE LoginErrorStatus(result.error),
                    message |-> IF result.ok THEN "Login successful"
                                ELSE result.error,
                    token |-> result.token, compared |-> result.compared,
                    isPasswordValid |-> result.isPasswordValid]
  /\ UNCHANGED <<now, ticks, cookie, response, vt, st, env, db, cmp,
               tables, calls>>

\* The client receives the response of the route; a successful login sets
\* the auth_token cookie.
AuthReturn ==
  /\ auth.pc = "done"
  /\ cookie' = IF auth.op = "login" /\ auth.status = 200 THEN auth.token
               ELSE cookie
  /\ auth' = IdleAuth
  /\ UNCHANGED <<now, ticks, response, vt, st, env, db, cmp,
               tables, calls>>

----------------------------------------------------------------------------
(* verifyToken, statement by statement *)

\* Mutant: the payload is decoded before the signature is compared.
AfterSplit_DecodeFirst == "decode"

\* The statement that follows each one that did not throw.
AfterSplit == "signature"

AfterSignature == "decode"

AfterDecode == "expiry"

Throw(cause) == [vt EXCEPT !.pc = "caught", !.result = Thrown(cause)]

VerifyStart ==
  /\ Quiet
  /\ cookie # NoCookie
  /\ vt' = [IdleVt EXCEPT !.pc = "split", !.token = cookie]
  /\ UNCHANGED <<now, ticks, cookie, response, st, env, db, auth, cmp,
               tables, calls>>

VerifySplit ==
  /\ vt.pc = "split"
  /\ vt' = IF PartsOk(vt.token) THEN [vt EXCEPT !.pc = AfterSplit]
           ELSE Throw("Invalid token format")
  /\ UNCHANGED <<now, ticks, cookie, response, st, env, db, auth, cmp,
               tables, calls>>

\* createSignature resolves and the signatures are compared, or
\* crypto.subtle rejects.
VerifySignature ==
  /\ vt.pc = "signature"
  /\ \E cryptoFails \in BOOLEAN :
       vt' = IF cryptoFails
               THEN [Throw("OperationError") EXCEPT !.cryptoFails = TRUE]
             ELSE IF SignatureOk(vt.token)
               THEN [vt EXCEPT !.pc = AfterSignature,
                               !.sigChecked = TRUE, !.sigEqual = TRUE]
             ELSE [Throw("Invalid signature") EXCEPT !.sigChecked = TRUE]
  /\ UNCHANGED <<now, ticks, cookie, response, st, env, db, auth, cmp,
               tables, calls>>

VerifyDecode ==
  /\ vt.pc = "decode"
  /\ vt' = IF base64UrlDecode(vt.token[2]).ok
             THEN [vt EXCEPT !.pc = AfterDecode, !.decoded = TRUE,
                             !.payload = base64UrlDecode(vt.token[2]).payload]
           ELSE Throw("SyntaxError")
  /\ UNCHANGED <<now, ticks, cookie, response, st, env, db, auth, cmp,
               tables, calls>>

VerifyExpiry ==
  /\ vt.pc = "expiry"
  /\ vt' = IF IsExpired(vt.payload, now)
             THEN [Throw("Token expired") EXCEPT !.expiryRead = TRUE, !.at = now]
           ELSE [vt EXCEPT !.pc = "done", !.expiryRead = TRUE, !.at = now,
                           !.result = Returned(vt.payload)]
  /\ UNCHANGED <<now, ticks, cookie, response, st, env, db, auth, cmp,
               tables, calls>>

\* catch (error) { throw new Error('Invalid or expired token') }
VerifyCatch ==
  /\ vt.pc = "caught"
  /\ vt' = [vt EXCEPT !.pc = "done"]
  /\ UNCHANGED <<now, ticks, cookie, response, st, env, db, auth, cmp,
               tables, calls>>

\* The caller takes the result.
VerifyReturn ==
  /\ vt.pc = "done"
  /\ vt' = IdleVt
  /\ UNCHANGED <<now, ticks, cookie, response, st, env, db, auth, cmp,
               tables, calls>>

Next ==
  \/ Tick
  \/ SignToken
  \/ SignReturn
  \/ Tamper
  \/ Request
  \/ RouteHandler
  \/ Deliver
  \/ VerifyStart
  \/ VerifySplit
  \/ VerifySignature
  \/ VerifyDecode
  \/ VerifyExpiry
  \/ VerifyCatch
  \/ VerifyReturn

Spec == Init /\ [][Next]_vars

SpecNoSecret == InitNoSecret /\ [][Next]_vars

\* Requests as the framework dispatches them, with the headers of the
\* client.
NextMatcher ==
  \/ Tick
  \/ SignToken
  \/ SignReturn
  \/ Tamper
  \/ Dispatch
  \/ RouteHandler
  \/ Deliver

SpecMatcher == Init /\ [][NextMatcher]_vars

\* Requests with tokens signed for any role string.
NextAnyRole ==
  \/ Tick
  \/ SignTokenAnyRole
  \/ SignReturn
  \/ Tamper
  \/ Request
  \/ RouteHandler
  \/ Deliver

SpecAnyRole == Init /\ [][NextAnyRole]_vars

\* Registration and login.
NextLogin ==
  \/ Register
  \/ Login
  \/ AuthReturn

SpecLogin == Init /\ [][NextLogin]_vars

----------------------------------------------------------------------------
(* signature !== expectedSignature, character by character *)

\* Signature strings as sequences of characters, over two characters.
SigChars == {"a", "b"}

SigStrings(n) == [1..n -> SigChars]

\* verifyToken reaches the comparison with the signature segment of the
\* token, of any length, and the recomputed signature.
CompareStart ==
  /\ Quiet
  /\ \E n \in 0..SigLen :
     \E signature \in SigStrings(n), expectedSignature \in SigStrings(SigLen) :
       cmp' = [IdleCmp EXCEPT !.pc = "length", !.signature = signature,
                              !.expectedSignature = expectedSignature]
  /\ UNCHANGED <<now, ticks, cookie, response, vt, st, env, db, auth,
               tables, calls>>

\* Strings of different lengths are unequal without a look at a character.
CompareLength ==
  /\ cmp.pc = "length"
  /\ cmp' = IF Len(cmp.signature) # Len(cmp.expectedSignature)
              THEN [cmp EXCEPT !.pc = "done", !.unequal = TRUE]
            ELSE [cmp EXCEPT !.pc = "chars", !.i = 1]
  /\ UNCHANGED <<now, ticks, cookie, response, vt, st, env, db, auth,
               tables, calls>>

\* One character of each string is compared; the first difference ends the
\* comparison.
CompareChar ==
  /\ cmp.pc = "chars"
  /\ cmp' = IF cmp.i > Len(cmp.signature)
              THEN [cmp EXCEPT !.pc = "done", !.unequal = FALSE]
            ELSE IF cmp.signature[cmp.i] # cmp.expectedSignature[cmp.i]
              THEN [cmp EXCEPT !.pc = "done", !.unequal = TRUE,
                               !.steps = cmp.steps + 1]
            ELSE [cmp EXCEPT !.i = cmp.i + 1, !.steps = cmp.steps + 1]
  /\ UNCHANGED <<now, ticks, cookie, response, vt, st, env, db, auth,
               tables, calls>>

CompareReturn ==
  /\ cmp.pc = "done"
  /\ cmp' = IdleCmp
  /\ UNCHANGED <<now, ticks, cookie, response, vt, st, env, db, auth,
               tables, calls>>

NextCompare ==
  \/ CompareStart
  \/ CompareLength
  \/ CompareChar
  \/ CompareReturn

SpecCompare == Init /\ [][NextCompare]_vars

----------------------------------------------------------------------------
(* QuestionService and QuizService, one database statement at a time *)

Call(p) == calls.slot[p]

Begin(p, call) ==
  /\ calls.started < MaxCalls
  /\ Call(p).pc = "idle"
  /\ calls' = [slot |-> [calls.slot EXCEPT ![p] = call],
               started |-> calls.started + 1]

Continue(p, call) == calls' = [calls EXCEPT !.slot[p] = call]

Threw(call, error) ==
  [call EXCEPT !.pc = "done", !.outcome = "threw", !.error = error]

Returns(call) == [call EXCEPT !.pc = "done", !.outcome = "returned"]

QuestionsWhereId(id) == {row \in tables.questions : row.id = id}

OptionsWhereQuestion(id) == {row \in tables.options : row.question_id = id}

AttemptsWhereQuestion(id) ==
  {row \in tables.quiz_attempts : row.question_id = id}

\* db.batch runs its statements in one transaction; the foreign key of
\* options.question_id makes it fail when the question is gone.
ForeignKeyHolds(questionId) == QuestionsWhereId(questionId) # {}

Instructors == {"u1", "u4"}

\* createQuestion: the validation and INSERT INTO questions.
CreateQuestion(p) ==
  /\ \E input \in CreateInputs :
       LET call == [IdleCall EXCEPT !.op = "createQuestion", !.caller = "u1",
                                    !.role = "instructor", !.input = input]
       IN  IF createError(input) # ""
             THEN /\ Begin(p, Threw(call, createError(input)))
                  /\ UNCHANGED tables
           ELSE /\ Begin(p, [call EXCEPT !.pc = "insertOptions",
                                         !.qid = tables.ids + 1,
                                         !.mutations = 1])
                /\ tables' =
                     [tables EXCEPT
                        !.questions = @ \cup
                          {QuestionRow(tables.ids + 1, "u1", input, now)},
                        !.ids = @ + 1]
  /\ UNCHANGED <<now, ticks, cookie, response, vt, st, env, db, auth, cmp>>

\* createQuestion, updateQuestion: executeBatch of the INSERT INTO options.
InsertOptions(p) ==
  /\ Call(p).pc = "insertOptions"
  /\ \E batchFails \in BOOLEAN :
       LET options == CHOOSE o \in Call(p).input.options : TRUE
       IN  IF batchFails \/ ~ForeignKeyHolds(Call(p).qid)
             THEN /\ Continue(p, Threw(Call(p), "Database batch failed"))
                  /\ UNCHANGED tables
           ELSE /\ Continue(p, [Call(p) EXCEPT !.pc = "selectQuestion",
                                               !.mutations = @ + 1])
                /\ tables' =
                     [tables EXCEPT
                        !.options = @ \cup
                          OptionRows(Call(p).qid, options, tables.ids),
                        !.ids = @ + Len(options)]
  /\ UNCHANGED <<now, ticks, cookie, response, vt, st, env, db, auth, cmp>>

\* Another call is an updateQuestion of the same question that has run its
\* DELETE FROM options and not yet its batch of INSERTs.
BetweenDeleteAndInsert(p) ==
  \E q \in Procs \ {p} :
    /\ Call(q).op = "updateQuestion"
    /\ Call(q).pc = "insertOptions"
    /\ Call(q).qid = Call(p).qid

\* GET /api/questions/[id] and the service function called for a student.
GetQuestionById(p) ==
  /\ \E role \in Roles :
       Begin(p, [IdleCall EXCEPT
                   !.op = "getQuestionById", !.pc = "selectQuestion",
                   !.caller = IF role = "student" THEN "u2" ELSE "u1",
                   !.role = role, !.qid = 1])
  /\ UNCHANGED <<now, ticks, cookie, response, vt, st, env, db, auth, cmp,
                 tables>>

\* getQuestionById: SELECT ... FROM questions WHERE id = ?
SelectQuestion(p) ==
  /\ Call(p).pc = "selectQuestion"
  /\ Continue(p,
       IF QuestionsWhereId(Call(p).qid) # {}
         THEN [Call(p) EXCEPT !.pc = "selectOptions"]
       ELSE IF Call(p).op = "createQuestion"
         THEN Threw(Call(p), "Failed to retrieve created question")
       ELSE IF Call(p).op = "updateQuestion"
         THEN Threw(Call(p), "Failed to retrieve updated question")
       ELSE Returns(Call(p)))
  /\ UNCHANGED <<now, ticks, cookie, response, vt, st, env, db, auth, cmp,
                 tables>>

\* The option a question is returned with: getRandomQuestion always hides
\* is_correct, getQuestionById hides it from role student.
ReturnedOption(row, call) ==
  [id |-> row.id, question_id |-> row.question_id,
   isCorrect |-> IF call.op = "getRandomQuestion" \/ call.role = "student"
                   THEN FALSE
                 ELSE toBoolean(row.is_correct),
   optionOrder |-> row.option_order]

\* getQuestionById, getRandomQuestion: SELECT ... FROM options WHERE
\* question_id = ?
SelectOptions(p) ==
  /\ Call(p).pc = "selectOptions"
  /\ Continue(p,
       [Returns(Call(p)) EXCEPT
          !.rows = {ReturnedOption(row, Call(p)) :
                      row \in OptionsWhereQuestion(Call(p).qid)},
          !.midUpdate = BetweenDeleteAndInsert(p)])
  /\ UNCHANGED <<now, ticks, cookie, response, vt, st, env, db, auth, cmp,
                 tables>>

\* getRandomQuestion: SELECT ... FROM questions ORDER BY RANDOM() LIMIT 1
GetRandomQuestion(p) ==
  /\ LET call == [IdleCall EXCEPT !.op = "getRandomQuestion", !.caller = "u2",
                                  !.role = "student"]
     IN  IF tables.questions = {} THEN Begin(p, Returns(call))
         ELSE \E row \in tables.questions :
                Begin(p, [call EXCEPT !.pc = "selectOptions", !.qid = row.id])
  /\ UNCHANGED <<now, ticks, cookie, response, vt, st, env, db, auth, cmp,
                 tables>>

PermissionMessage(op) ==
  IF op = "updateQuestion"
    THEN "You do not have permission to update this question"
  ELSE IF op = "deleteQuestion"
    THEN "You do not have permission to delete this question"
  ELSE "You do not have permission to view this question's statistics"

\* Mutant: deleteQuestion skips the comparison of instructor_id.
ownershipError_DeleteOpen(op, rows, instructorId) ==
  IF rows = {} THEN "Question not found"
  ELSE IF op # "deleteQuestion"
          /\ (CHOOSE row \in rows : TRUE).instructor_id # instructorId
    THEN PermissionMessage(op)
  ELSE ""

\* "Verify ownership": what updateQuestion, deleteQuestion and
\* getQuestionStatistics throw after SELECT id, instructor_id.
ownershipError(op, rows, instructorId) ==
  IF rows = {} THEN "Question not found"
  ELSE IF (CHOOSE row \in rows : TRUE).instructor_id # instructorId
    THEN PermissionMessage(op)
  ELSE ""

UpdateQuestion(p) ==
  /\ \E input \in UpdateInputs, instructorId \in Instructors :
       Begin(p, [IdleCall EXCEPT
                   !.op = "updateQuestion", !.pc = "ownership",
                   !.caller = instructorId, !.role = "instructor",
                   !.qid = 1, !.input = input])
  /\ UNCHANGED <<now, ticks, cookie, response, vt, st, env, db, auth, cmp,
                 tables>>

DeleteQuestion(p) ==
  /\ \E force \in BOOLEAN, instructorId \in Instructors :
       Begin(p, [IdleCall EXCEPT
                   !.op = "deleteQuestion", !.pc = "ownership",
                   !.caller = instructorId, !.role = "instructor",
                   !.qid = 1, !.force = force])
  /\ UNCHANGED <<now, ticks, cookie, response, vt, st, env, db, auth, cmp,
                 tables>>

GetQuestionStatistics(p) ==
  /\ \E instructorId \in Instructors :
       Begin(p, [IdleCall EXCEPT
                   !.op = "getQuestionStatistics", !.pc = "ownership",
                   !.caller = instructorId, !.role = "instructor",
                   !.qid = 1])
  /\ UNCHANGED <<now, ticks, cookie, response, vt, st, env, db, auth, cmp,
                 tables>>

\* SELECT id, instructor_id FROM questions WHERE id = ?, the ownership
\* check, and for updateQuestion the validation of the fields.
SelectOwner(p) ==
  /\ Call(p).pc = "ownership"
  /\ LET rows     == QuestionsWhereId(Call(p).qid)
         error    == ownershipError(Call(p).op, rows, Call(p).caller)
         existing == IF rows = {} THEN ""
                     ELSE (CHOOSE row \in rows : TRUE).instructor_id
         call     == [Call(p) EXCEPT !.existing = existing]
     IN  Continue(p,
           IF error # "" THEN Threw(call, error)
           ELSE IF call.op = "updateQuestion"
             THEN IF updateFieldsError(call.input) # ""
                    THEN Threw(call, updateFieldsError(call.input))
                  ELSE [call EXCEPT !.pc = "updateRow"]
           ELSE IF call.op = "deleteQuestion"
             THEN [call EXCEPT !.pc = IF call.force THEN "deleteRow"
                                      ELSE "countAttempts"]
           ELSE [call EXCEPT !.pc = "selectStatistics"])
  /\ UNCHANGED <<now, ticks, cookie, response, vt, st, env, db, auth, cmp,
                 tables>>

\* The row after UPDATE questions SET ..., updated_at = ? WHERE id = ?
UpdatedRow(row, input, t) ==
  [row EXCEPT
     !.question_text = IF input.questionText = {} THEN @
                       ELSE CHOOSE text \in input.questionText : TRUE,
     !.difficulty = IF input.difficulty = {} THEN @
                    ELSE CHOOSE d \in input.difficulty : TRUE,
     !.points = IF input.points = {} THEN @
                ELSE CHOOSE n \in input.points : TRUE,
     !.updated_at = t]

\* updateQuestion: the UPDATE of the question row.
UpdateRow(p) ==
  /\ Call(p).pc = "updateRow"
  /\ tables' =
       [tables EXCEPT
          !.questions =
            {IF row.id = Call(p).qid THEN UpdatedRow(row, Call(p).input, now)
             ELSE row : row \in @}]
  /\ Continue(p, [Call(p) EXCEPT
                    !.pc = IF Call(p).input.options = {} THEN "selectQuestion"
                           ELSE "deleteOptions",
                    !.mutations = @ + 1])
  /\ UNCHANGED <<now, ticks, cookie, response, vt, st, env, db, auth, cmp>>

\* updateQuestion: the validation of the supplied options, then DELETE
\* FROM options WHERE question_id = ? (selected_option_id of the attempts
\* is SET NULL, here 0).
DeleteOptions(p) ==
  /\ Call(p).pc = "deleteOptions"
  /\ LET options == CHOOSE o \in Call(p).input.options : TRUE
         removed == {row.id : row \in OptionsWhereQuestion(Call(p).qid)}
     IN  IF optionsError(options) # ""
           THEN /\ Continue(p, Threw(Call(p), optionsError(options)))
                /\ UNCHANGED tables
         ELSE /\ Continue(p, [Call(p) EXCEPT !.pc = "insertOptions",
                                             !.mutations = @ + 1])
              /\ tables' =
                   [tables EXCEPT
                      !.options = @ \ OptionsWhereQuestion(Call(p).qid),
                      !.quiz_attempts =
                        {IF row.selected_option_id \in removed
                           THEN [row EXCEPT !.selected_option_id = 0]
                         ELSE row : row \in @}]
  /\ UNCHANGED <<now, ticks, cookie, response, vt, st, env, db, auth, cmp>>

\* deleteQuestion without force: SELECT COUNT(*) FROM quiz_attempts
CountAttempts(p) ==
  /\ Call(p).pc = "countAttempts"
  /\ Continue(p,
       IF AttemptsWhereQuestion(Call(p).qid) # {}
         THEN Threw(Call(p), "Cannot delete question with quiz attempts")
       ELSE [Call(p) EXCEPT !.pc = "deleteRow"])
  /\ UNCHANGED <<now, ticks, cookie, response, vt, st, env, db, auth, cmp,
                 tables>>

\* deleteQuestion: DELETE FROM questions WHERE id = ?, with ON DELETE
\* CASCADE of options and quiz_attempts.
DeleteRow(p) ==
  /\ Call(p).pc = "deleteRow"
  /\ tables' =
       [tables EXCEPT
          !.questions = @ \ QuestionsWhereId(Call(p).qid),
          !.options = @ \ OptionsWhereQuestion(Call(p).qid),
          !.quiz_attempts = @ \ AttemptsWhereQuestion(Call(p).qid)]
  /\ Continue(p, [Returns(Call(p)) EXCEPT
                    !.mutations = @ + 1,
                    !.removedAttempts =
                      Cardinality(AttemptsWhereQuestion(Call(p).qid))])
  /\ UNCHANGED <<now, ticks, cookie, response, vt, st, env, db, auth, cmp>>

\* getQuestionStatistics: the statistics queries (the option distribution
\* carries is_correct).
SelectStatistics(p) ==
  /\ Call(p).pc = "selectStatistics"
  /\ Continue(p,
       [Returns(Call(p)) EXCEPT
          !.rows = {ReturnedOption(row, Call(p)) :
                      row \in OptionsWhereQuestion(Call(p).qid)}])
  /\ UNCHANGED <<now, ticks, cookie, response, vt, st, env, db, auth, cmp,
                 tables>>

\* POST /api/quiz/submit: the student answers with an option of the
\* question as it was shown.
SubmitAnswer(p) ==
  /\ \E row \in OptionsWhereQuestion(1) :
       Begin(p, [IdleCall EXCEPT
                   !.op = "submitAnswer", !.pc = "submitQuestion",
                   !.caller = "u2", !.role = "student", !.qid = 1,
                   !.selected = row.id])
  /\ UNCHANGED <<now, ticks, cookie, response, vt, st, env, db, auth, cmp,
                 tables>>

\* submitAnswer: SELECT id, points FROM questions WHERE id = ?
SubmitSelectQuestion(p) ==
  /\ Call(p).pc = "submitQuestion"
  /\ Continue(p,
       IF QuestionsWhereId(Call(p).qid) = {}
         THEN Threw(Call(p), "Question not found")
       ELSE [Call(p) EXCEPT !.pc = "submitOption"])
  /\ UNCHANGED <<now, ticks, cookie, response, vt, st, env, db, auth, cmp,
                 tables>>

\* submitAnswer: SELECT ... FROM options WHERE id = ? AND question_id = ?
SubmitSelectOption(p) ==
  /\ Call(p).pc = "submitOption"
  /\ Continue(p,
       IF \E row \in OptionsWhereQuestion(Call(p).qid) :
            row.id = Call(p).selected
         THEN [Call(p) EXCEPT !.pc = "submitCorrect"]
       ELSE Threw([Call(p) EXCEPT !.midUpdate = BetweenDeleteAndInsert(p)],
                  "Selected option not found for this question"))
  /\ UNCHANGED <<now, ticks, cookie, response, vt, st, env, db, auth, cmp,
                 tables>>

\* submitAnswer: SELECT ... FROM options WHERE question_id = ? AND
\* is_correct = 1
SubmitSelectCorrect(p) ==
  /\ Call(p).pc = "submitCorrect"
  /\ LET correct == {row \in OptionsWhereQuestion(Call(p).qid) :
                       toBoolean(row.is_correct)}
     IN  Continue(p,
           IF correct = {}
             THEN Threw([Call(p) EXCEPT
                           !.midUpdate = BetweenDeleteAndInsert(p)],
                        "Correct answer not found for this question")
           ELSE [Call(p) EXCEPT
                   !.pc = "insertAttempt",
                   !.rows = {[id |-> row.id, question_id |-> row.question_id,
                              isCorrect |-> TRUE,
                              optionOrder |-> row.option_order] :
                               row \in {CHOOSE row \in correct : TRUE}}])
  /\ UNCHANGED <<now, ticks, cookie, response, vt, st, env, db, auth, cmp,
                 tables>>

\* submitAnswer: INSERT INTO quiz_attempts; the foreign keys need the
\* question and the selected option to be there still.
InsertAttempt(p) ==
  /\ Call(p).pc = "insertAttempt"
  /\ IF /\ ForeignKeyHolds(Call(p).qid)
        /\ \E row \in tables.options : row.id = Call(p).selected
       THEN /\ tables' =
                 [tables EXCEPT
                    !.quiz_attempts = @ \cup
                      {[id |-> tables.ids + 1, student_id |-> Call(p).caller,
                        question_id |-> Call(p).qid,
                        selected_option_id |-> Call(p).selected]},
                    !.ids = @ + 1]
            /\ Continue(p, [Returns(Call(p)) EXCEPT !.mutations = @ + 1])
     ELSE /\ Continue(p, Threw([Call(p) EXCEPT !.rows = {}],
                               "Database mutation failed"))
          /\ UNCHANGED tables
  /\ UNCHANGED <<now, ticks, cookie, response, vt, st, env, db, auth, cmp>>

\* The row of SELECT * FROM options as GET /api/data?table=options
\* returns it.
RawOption(row) ==
  [id |-> row.id, question_id |-> row.question_id,
   isCorrect |-> toBoolean(row.is_correct), optionOrder |-> row.option_order]

\* GET /api/data?table=options: no requireAuth, no requireRole.
ApiData(p) ==
  /\ \E role \in Roles :
       Begin(p, [Returns(IdleCall) EXCEPT
                   !.op = "apiData",
                   !.caller = IF role = "student" THEN "u2" ELSE "u1",
                   !.role = role,
                   !.rows = {RawOption(row) : row \in tables.options}])
  /\ UNCHANGED <<now, ticks, cookie, response, vt, st, env, db, auth, cmp,
                 tables>>

\* The caller takes the result or the error.
CallReturn(p) ==
  /\ Call(p).pc = "done"
  /\ Continue(p, IdleCall)
  /\ UNCHANGED <<now, ticks, cookie, response, vt, st, env, db, auth, cmp,
                 tables>>

NextQuestions ==
  \E p \in Procs :
    \/ CreateQuestion(p)
    \/ InsertOptions(p)
    \/ GetQuestionById(p)
    \/ SelectQuestion(p)
    \/ SelectOptions(p)
    \/ GetRandomQuestion(p)
    \/ UpdateQuestion(p)
    \/ DeleteQuestion(p)
    \/ GetQuestionStatistics(p)
    \/ SelectOwner(p)
    \/ UpdateRow(p)
    \/ DeleteOptions(p)
    \/ CountAttempts(p)
    \/ DeleteRow(p)
    \/ SelectStatistics(p)
    \/ SubmitAnswer(p)
    \/ SubmitSelectQuestion(p)
    \/ SubmitSelectOption(p)
    \/ SubmitSelectCorrect(p)
    \/ InsertAttempt(p)
    \/ ApiData(p)
    \/ CallReturn(p)

SpecQuestions == Init /\ [][NextQuestions]_vars

----------------------------------------------------------------------------
(* Consistency of the two renderings of verifyToken *)

StepwiseAgrees ==
  vt.pc = "done" =>
    vt.result = verifyToken(vt.token, IF vt.expiryRead THEN vt.at ELSE now,
                            vt.cryptoFails)

----------------------------------------------------------------------------
(* Vocabulary of the properties *)

Answered == response.stage = "final"

Api == StartsWith(response.pathname, ApiPrefix)

\* The request carries a credential: a non-empty auth_token cookie.
Presented == HasToken(response.token)

\* The credential is valid, or fails validation, and the validation itself
\* ran without an error of the runtime.
Accepted ==
  /\ Presented
  /\ ~response.cryptoFails
  /\ verifyToken(response.token, response.at, FALSE).ok

Rejected ==
  /\ Presented
  /\ ~response.cryptoFails
  /\ ~verifyToken(response.token, response.at, FALSE).ok

\* The payload segment of the presented token, read directly.
Carried == response.token[2].p

\* The route table of the documentation: public routes, and the role a
\* protected route asks for ("" when any authenticated user may use it).
PublicRoute(pathname) ==
  \/ pathname \in {RootPath, LoginPath, SignupPath, ApiHealthPath}
  \/ StartsWith(pathname, ApiAuthPrefix)

RequiredRole(pathname) ==
  IF StartsWith(pathname, InstructorPrefix \o Slash) THEN "instructor"
  ELSE IF StartsWith(pathname, StudentPrefix \o Slash) THEN "student"
  ELSE IF pathname = ApiQuestionsPath THEN "instructor"
  ELSE IF pathname = ApiQuizRandomPath THEN "student"
  ELSE ""

RoleLanding(role) ==
  IF role = "instructor" THEN InstructorDashboardPath
  ELSE IF role = "student" THEN StudentQuizPath
  ELSE NoLocation

Denied(status) ==
  \/ response.gate.kind = "json" /\ response.gate.status = status
  \/ response.gate.kind = "next" /\ response.handler = status

RedirectedTo(location) ==
  response.gate.kind = "redirect" /\ response.gate.location = location

WrongRole ==
  /\ Answered
  /\ Accepted
  /\ RequiredRole(response.pathname) # ""
  /\ Carried.role # RequiredRole(response.pathname)

\* The token verifyToken is working on carries the server's signature.
ServerSigned(token) ==
  /\ Len(token) = 3
  /\ token[3] = createSignature(token[1], token[2], JWT_SECRET)

----------------------------------------------------------------------------
(* Properties *)

\* C1: a valid token whose role is not the role the route requires is
\* answered 403 on an API route and redirected to the landing route of the
\* token's own role on a page route; it is never allowed through and never
\* sent to the login page.
C1_WrongRoleRefused ==
  WrongRole =>
    IF Api THEN Denied(403)
    ELSE RedirectedTo(RoleLanding(Carried.role))

C1_Witness ==
  /\ WrongRole
  /\ Api
  /\ Carried.role = "student"
  /\ response.handler = 403

\* C2: a request to a public route (/, /login, /signup, /api/auth/*,
\* /api/health) is allowed to proceed whatever credential it carries, except
\* that a valid token on /login or /signup is redirected to the landing
\* route.
C2_PublicAlwaysAllowed ==
  (response.stage # "none" /\ PublicRoute(response.pathname)) =>
    \/ response.gate.kind = "next"
    \/ /\ Accepted
       /\ response.pathname \in {LoginPath, SignupPath}
       /\ RedirectedTo(RoleLanding(Carried.role))

\* C3: a protected route reached with a credential that fails validation is
\* answered 401 (API) or redirected to /login (page), and the response
\* deletes the auth_token cookie.
C3_InvalidCredentialCleared ==
  (Answered /\ ~PublicRoute(response.pathname) /\ Rejected) =>
    /\ response.gate.clearCookie
    /\ IF Api THEN Denied(401) /\ response.gate.kind = "json"
       ELSE RedirectedTo(LoginPath)

C3_Witness ==
  /\ Answered
  /\ ~PublicRoute(response.pathname)
  /\ Rejected
  /\ Api
  /\ verifyToken(response.token, response.at, FALSE).cause = "Token expired"
  /\ response.gate.clearCookie

\* C4: a protected route reached without a credential is answered 401 (API)
\* or redirected to /login (page); the request is never let through and no
\* identity is attached.
C4_NoCredentialRefused ==
  (Answered /\ ~PublicRoute(response.pathname) /\ ~Presented) =>
    /\ response.gate.kind # "next"
    /\ response.gate.identity = NoIdentity
    /\ IF Api THEN response.gate.kind = "json" /\ response.gate.status = 401
       ELSE RedirectedTo(LoginPath)

C4_Witness ==
  /\ Answered
  /\ ~PublicRoute(response.pathname)
  /\ ~Presented
  /\ ~Api
  /\ RedirectedTo(LoginPath)

\* C5: when the gate lets a request with an accepted token through, the
\* identity it forwards (x-user-id, x-user-role) is the userId and role of
\* the token's payload, and on every route but the unauthenticated API
\* prefixes it does forward one.
C5_IdentityFromPayload ==
  (response.stage # "none" /\ response.gate.kind = "next" /\ Accepted) =>
    /\ response.gate.identity # NoIdentity =>
         response.gate.identity =
           [userId |-> Carried.userId, role |-> Carried.role]
    /\ ~(StartsWith(response.pathname, ApiAuthPrefix)
           \/ response.pathname = ApiHealthPath) =>
         response.gate.identity # NoIdentity

C5_Witness ==
  /\ response.stage # "none"
  /\ response.gate.kind = "next"
  /\ Accepted
  /\ response.pathname = ApiQuestionsPath
  /\ response.gate.identity = [userId |-> "u1", role |-> "instructor"]

\* C6: verifyToken decodes the payload, reads its expiry and returns it only
\* after the signature over the first two segments was compared and found
\* equal to the recomputed one.
C6_SignatureBeforePayload ==
  (vt.decoded \/ vt.expiryRead \/ (vt.pc = "done" /\ vt.result.ok)) =>
    vt.sigChecked /\ vt.sigEqual

C6_Witness == vt.pc = "expiry" /\ vt.decoded /\ vt.sigChecked /\ vt.sigEqual

\* C7: verifyToken returns a payload only for a token whose third segment
\* is the MAC of its first two under the configured secret; a minted token
\* whose payload segment was changed and whose signature was kept fails.
C7_TamperRejected ==
  (vt.pc = "done" /\ vt.result.ok) => ServerSigned(vt.token)

C7_Witness ==
  /\ vt.pc = "done"
  /\ ~vt.result.ok
  /\ Len(vt.token) = 3
  /\ vt.token[3].key = JWT_SECRET
  /\ vt.token[2].tag = "payload"
  /\ vt.token[2].p.role # vt.token[3].p.role

\* C8: a correctly signed token is rejected exactly when its expiresAt is
\* strictly less than the time of the check.
C8_RejectedIffExpired ==
  (vt.pc = "done" /\ ServerSigned(vt.token) /\ vt.expiryRead) =>
    (~vt.result.ok <=> LessThan(vt.token[2].p.exp, vt.at))

\* C9: a correctly signed token whose payload has no issuedAt, or no
\* expiresAt, or a null or zero expiresAt, is rejected.
C9_MissingExpiryRejected ==
  (/\ vt.pc = "done"
   /\ ServerSigned(vt.token)
   /\ vt.token[2].tag = "payload"
   /\ (vt.token[2].p.iat = {} \/ ~Truthy(vt.token[2].p.exp))) =>
    ~vt.result.ok

ThreeNonEmptyParts(token) ==
  Len(token) = 3 /\ \A i \in 1..3 : token[i] # EmptySeg

Lifetime(expiresIn) ==
  IF expiresIn.suffix = "h" THEN Times(expiresIn.num, 3600)
  ELSE IF expiresIn.suffix = "d" THEN Times(expiresIn.num, 86400)
  ELSE {86400}

PositiveLifetime(expiresIn) ==
  expiresIn.suffix \in {"h", "d"} /\ \E n \in expiresIn.num : n > 0

\* C12: for every claim set and every lifetime L > 0, signToken yields a
\* token, and verifyToken of that token before its expiry returns a payload
\* with the userId, email and role of the claim set and exp - iat = L.
C12_RoundTrip ==
  (st.pc = "done" /\ PositiveLifetime(st.expiresIn)) =>
    /\ st.result.ok
    /\ (\E e \in Plus(st.at, Lifetime(st.expiresIn)) : now < e) =>
         LET r == verifyToken(st.result.token, now, FALSE)
         IN  /\ r.ok
             /\ r.payload.userId = st.claims.userId
             /\ r.payload.email = st.claims.email
             /\ r.payload.role = st.claims.role
             /\ \E e \in r.payload.exp, i \in r.payload.iat :
                  {e - i} = Lifetime(st.expiresIn)

\* C13: every token signToken produces carries iat, equal to the time of
\* the call, and exp = iat + lifetime, with exp > iat.
C13_ExpiryAfterIssue ==
  (st.pc = "done" /\ st.result.ok) =>
    LET payload == st.result.token[2].p
    IN  /\ payload.iat = {st.at}
        /\ payload.exp # {}
        /\ payload.exp = Plus(st.at, Lifetime(st.expiresIn))
        /\ \E e \in payload.exp : e > st.at

\* The unauthenticated outcomes of the gate: 401, or a redirect to /login,
\* or any response that deletes the auth_token cookie.
UnauthenticatedOutcome ==
  \/ response.gate.kind = "json" /\ response.gate.status = 401
  \/ RedirectedTo(LoginPath)
  \/ response.gate.clearCookie

\* C14: when crypto.subtle fails while the gate validates a credential, the
\* gate does not answer with an unauthenticated outcome (401, or a redirect
\* to /login, with the cookie deleted).
C14_InternalErrorNotUnauthenticated ==
  (response.stage # "none" /\ response.cryptoFails) => ~UnauthenticatedOutcome

\* A token was signed, or accepted, under the default secret.
DefaultSecretUsed ==
  \/ /\ st.pc = "done"
     /\ st.result.ok
     /\ st.result.token[3].key = DefaultSecret
  \/ /\ vt.pc = "done"
     /\ vt.result.ok
     /\ vt.token[3].key = DefaultSecret

\* C15: with no JWT_SECRET configured, a token is signed or accepted under
\* the default secret only in a process flagged non-production; in
\* production none is.
C15_DefaultSecretOnlyOutsideProduction ==
  (env.JWT_SECRET = "" /\ DefaultSecretUsed) => env.NODE_ENV # "production"

\* C16: a request for /login or /signup that bears a valid token is
\* redirected to the landing route of the token's role, /instructor/dashboard
\* for an instructor and /student/quiz for a student; the page is not let
\* through.
C16_AuthPageRedirects ==
  (/\ response.stage # "none"
   /\ response.pathname \in {LoginPath, SignupPath}
   /\ Accepted) =>
    /\ response.gate.kind = "redirect"
    /\ Carried.role = "instructor" =>
         response.gate.location = Slash \o W_instructor \o Slash \o W_dashboard
    /\ Carried.role = "student" =>
         response.gate.location = Slash \o W_student \o Slash \o W_quiz

C16_Witness ==
  /\ response.stage # "none"
  /\ response.pathname = SignupPath
  /\ Accepted
  /\ Carried.role = "student"
  /\ RedirectedTo(StudentQuizPath)

\* The three terminal outcomes: allow (with or without an identity), deny
\* with a status code, redirect with a target.
Allow(gate) ==
  /\ gate.kind = "next"
  /\ gate.location = NoLocation
  /\ ~gate.clearCookie

Deny(gate) ==
  /\ gate.kind = "json"
  /\ gate.status \in 400..599
  /\ gate.location = NoLocation
  /\ gate.identity = NoIdentity

Redirect(gate) ==
  /\ gate.kind = "redirect"
  /\ gate.location \in Paths
  /\ gate.identity = NoIdentity

\* The classes of a request: route class, credential presence, validity.
RouteClass(pathname) ==
  IF PublicRoute(pathname) THEN "public"
  ELSE IF RequiredRole(pathname) # "" THEN RequiredRole(pathname)
  ELSE "authenticated"

CredentialClass ==
  IF ~Presented THEN "absent"
  ELSE IF response.cryptoFails THEN "error"
  ELSE IF Accepted THEN "valid"
  ELSE "invalid"

LoginAnswered ==
  /\ auth.pc = "done"
  /\ auth.op = "login"
  /\ auth.email # ""
  /\ auth.password # ""

\* The row registered under the address of the attempt, if any.
Registered == {row \in db : row.email = toLowerCase(auth.email)}

UnknownEmail == LoginAnswered /\ Registered = {}

WrongPassword ==
  LoginAnswered /\ \E row \in Registered : row.typed # auth.password

\* C18: a login with an unknown e-mail address and a login with a known
\* address and a wrong password get the same answer, status 401 with the
\* message 'Invalid email or password' and no cookie.
C18_LoginFailuresAlike ==
  (UnknownEmail \/ WrongPassword) =>
    /\ auth.status = 401
    /\ auth.message = "Invalid email or password"
    /\ auth.token = NoCookie

C18_Witness ==
  /\ WrongPassword
  /\ auth.email = "i@quiz.io"
  /\ auth.status = 401
  /\ \E row \in db : row.email = "s@quiz.io"

\* C19: compare(p, hash(p)) is true, compare(q, hash(p)) is false for q
\* other than p, and two hashes of the same password are different stored
\* forms.
C19_SaltedHash ==
  /\ (LoginAnswered /\ auth.compared) =>
       \A row \in Registered :
         auth.isPasswordValid <=> (auth.password = row.typed)
  /\ \A row, other \in db :
       (row # other /\ row.typed = other.typed) => row.password # other.password

\* C20: the comparison of the signature of the token with the recomputed
\* one takes the same number of character comparisons wherever the first
\* differing character is.
C20_ConstantTimeCompare ==
  (/\ cmp.pc = "done"
   /\ Len(cmp.signature) = Len(cmp.expectedSignature)) =>
    cmp.steps = Len(cmp.expectedSignature)

----------------------------------------------------------------------------
(* Questions, options and quiz attempts *)

\* The student has submitted an answer to the question.
Attempted(studentId, questionId) ==
  \E row \in tables.quiz_attempts :
    row.student_id = studentId /\ row.question_id = questionId

\* C21: no response to a request made as a student, other than the result
\* of the student's own submitAnswer, carries isCorrect = true for an
\* option of a question that student has not answered.
C21_CorrectOptionHiddenFromStudent ==
  \A p \in Procs :
    (/\ Call(p).role = "student"
     /\ Call(p).outcome = "returned"
     /\ Call(p).op # "submitAnswer") =>
      \A row \in Call(p).rows :
        row.isCorrect => Attempted(Call(p).caller, row.question_id)

\* C22: a deleteQuestion without force that deleted the question removed
\* no quiz attempt with it: the question had no attempt when its row was
\* deleted.
C22_UnforcedDeleteKeepsAttempts ==
  \A p \in Procs :
    (/\ Call(p).op = "deleteQuestion"
     /\ ~Call(p).force
     /\ Call(p).outcome = "returned") =>
      Call(p).removedAttempts = 0

\* The options of a stored question are 4 or 6, exactly one of them is
\* marked correct, and no two share an option_order.
WellFormed(question) ==
  LET options == OptionsWhereQuestion(question.id)
  IN  /\ Cardinality(options) \in {4, 6}
      /\ Cardinality({row \in options : toBoolean(row.is_correct)}) = 1
      /\ \A a, b \in options : a.option_order = b.option_order => a = b

WriteInFlight ==
  \E p \in Procs :
    /\ Call(p).op \in {"createQuestion", "updateQuestion", "deleteQuestion"}
    /\ Call(p).pc # "done"

\* C23: when no createQuestion, updateQuestion or deleteQuestion is in
\* flight, every stored question has 4 or 6 options, exactly one correct,
\* with unique option_order values.
C23_StoredQuestionsWellFormed ==
  ~WriteInFlight => \A question \in tables.questions : WellFormed(question)

OwnerChecked == {"updateQuestion", "deleteQuestion", "getQuestionStatistics"}

\* C24: updateQuestion, deleteQuestion and getQuestionStatistics go past
\* the ownership check only for the instructor the question row names; any
\* other caller gets the permission error of the operation and has run no
\* INSERT, UPDATE or DELETE.
C24_OnlyOwnerActs ==
  \A p \in Procs :
    Call(p).op \in OwnerChecked =>
      /\ (\/ Call(p).pc \notin {"ownership", "done"}
          \/ Call(p).outcome = "returned"
          \/ Call(p).mutations > 0) => Call(p).existing = Call(p).caller
      /\ Call(p).existing \notin {"", Call(p).caller} =>
           /\ Call(p).outcome = "threw"
           /\ Call(p).error = PermissionMessage(Call(p).op)
           /\ Call(p).mutations = 0

C24_Witness ==
  \E p \in Procs :
    /\ Call(p).op = "deleteQuestion"
    /\ Call(p).force
    /\ Call(p).caller = "u4"
    /\ Call(p).existing = "u1"
    /\ Call(p).outcome = "threw"
    /\ QuestionsWhereId(1) # {}

\* What createQuestion requires of its input: the question text of 10 to
\* 1000 characters, a difficulty, 4 or 6 options, one of them correct, none
\* with an empty text, and at least 1 point.
ValidCreateInput(input) ==
  /\ \E text \in input.questionText : ~TextTooShort(text) /\ ~TextTooLong(text)
  /\ \E d \in input.difficulty : d \in Difficulties
  /\ \E options \in input.options :
       /\ Len(options) \in {4, 6}
       /\ \E i \in 1..Len(options) :
            /\ options[i].isCorrect
            /\ \A j \in 1..Len(options) : options[j].isCorrect => j = i
       /\ \A i \in 1..Len(options) : ~OptionTextEmpty(options[i].optionText)
  /\ \A n \in input.points : n >= 1

\* C25: a createQuestion whose input fails the validation throws before
\* its first write: it has run no INSERT, and alone it leaves the tables as
\* they were; a createQuestion that has written had a valid input.
C25_CreateValidatesBeforeWriting ==
  \A p \in Procs :
    Call(p).op = "createQuestion" =>
      /\ ~ValidCreateInput(Call(p).input) =>
           /\ Call(p).outcome = "threw"
           /\ Call(p).mutations = 0
           /\ calls.started = 1 => tables = SeededTables
      /\ Call(p).mutations > 0 => ValidCreateInput(Call(p).input)

C25_Witness ==
  \E p \in Procs :
    /\ Call(p).op = "createQuestion"
    /\ Call(p).input.points = {0}
    /\ Call(p).outcome = "threw"
    /\ Call(p).error = "Points must be at least 1"
    /\ tables = SeededTables

\* C26: no getQuestionById, getRandomQuestion or submitAnswer reads the
\* options of a question between the DELETE and the INSERT of an
\* updateQuestion of it, and an updateQuestion whose insert batch failed
\* does not leave the question without options.
C26_OptionsReplacedAtomically ==
  \A p \in Procs :
    /\ ~Call(p).midUpdate
    /\ (/\ Call(p).op = "updateQuestion"
        /\ Call(p).error = "Database batch failed"
        /\ QuestionsWhereId(Call(p).qid) # {}) =>
         OptionsWhereQuestion(Call(p).qid) # {}

ValidationErrors ==
  {"Question text must be at least 10 characters",
   "Question text must not exceed 1000 characters",
   "Difficulty must be easy, medium, or hard",
   "Points must be at least 1",
   "Question must have exactly 4 or 6 options",
   "Question must have exactly one correct answer",
   "Option text cannot be empty"}

\* C29: an updateQuestion that threw a validation error, with no other
\* call made, leaves the question row (updated_at included) and the options
\* as they were.
C29_FailedUpdateChangesNothing ==
  \A p \in Procs :
    (/\ Call(p).op = "updateQuestion"
     /\ Call(p).outcome = "threw"
     /\ Call(p).error \in ValidationErrors
     /\ calls.started = 1) =>
      tables = SeededTables

----------------------------------------------------------------------------
(* The gate on /login and /signup with an invalid credential *)

----------------------------------------------------------------------------
(* The identity the route handlers act on, and the gate's redirects *)

\* C27: a handler behind requireAuth or requireRole that goes on to act
\* does so under the userId and role of a token the same request carried
\* and verifyToken accepted, on every path the framework dispatches,
\* those the matcher excludes included.
C27_HandlerIdentityFromToken ==
  (/\ Answered
   /\ HandlerRequires(response.pathname) \in Roles \cup {"auth"}
   /\ response.handler = 200) =>
    /\ Accepted
    /\ RequestHeaders(response) =
         [userId |-> verifyToken(response.token, response.at, FALSE).payload.userId,
          role |-> verifyToken(response.token, response.at, FALSE).payload.role]

\* C28: when the gate redirects a request whose token verifyToken accepts,
\* whatever the role in it, the gate allows the same token on the target of
\* the redirect.
C28_RedirectTargetAllowed ==
  (/\ Answered
   /\ Accepted
   /\ response.gate.kind = "redirect") =>
    middleware(response.gate.location, response.token, response.at,
               FALSE).kind = "next"

====
